---- MODULE Spec2Model ----
(***************************************************************************)
(* Model of the Expose agent extension: the process supervisor             *)
(* (startAgent / stopAgent / restartAgent / wireProcess and the config     *)
(* watcher) and the configuration resolver (getPassword and                *)
(* buildArgsFromConfig).                                                   *)
(*                                                                         *)
(* The extension host is single threaded: every action below is one        *)
(* synchronous run of a handler, from an event or the resumption of an     *)
(* await up to the next await or the return.                               *)
(***************************************************************************)
EXTENDS Integers, Sequences, FiniteSets, TLC

\* ------------------------------------------------------------------------
\* Bounds of the model
\* ------------------------------------------------------------------------
\* number of startAgent invocations that get past the guard
MaxStarts == 2
\* number of blanks that may surround a configured string
MaxPad == 1
\* number of runOnce invocations
MaxRuns == 1
\* number of assets for other platforms in a release
MaxDecoys == 1
\* number of resolveBinary and installOrUpdate invocations
MaxCalls == 2

\* ------------------------------------------------------------------------
\* State
\* ------------------------------------------------------------------------
VARIABLES
    platform,     \* process.platform, fixed for a run: "win32" or "posix"
    proc,         \* the module variable proc: None or the tracked child
    status,       \* the status bar item: "idle" ($(play)) or "running"
    procs,        \* every child the extension has spawned, by id
    nProcs,       \* number of children spawned so far
    starts,       \* the startAgent invocations, by id, with their position
    nStarts,      \* number of startAgent invocations past the guard
    timers,       \* pending setTimeout callbacks of stopAgent
    fired,        \* ghost: live children whose stop's timer callback has run
    autoRestart,  \* setting expose.autoRestartOnConfigChange
    lastOp,       \* the handler that ran last and the notification it raised
    runs,         \* the runOnce invocations, by id, with their position
    fileCfg,      \* the parsed config file ({} when there is none)
    settings,     \* the settings store, as getCfg reads it
    secret,       \* the secret store entry expose.password
    cfgPc,        \* position of one configuration resolution
    eff,          \* the effective values read outside buildArgsFromConfig,
                  \* with the working directory of the spawn (dir)
    password,     \* the value getPassword resolved with
    args,         \* the argument vector of the spawn: buildArgsFromConfig's
                  \* or the compose one
    disk,         \* setting expose.configFile and the file it names
    workspace,    \* workspaceFolderPath(): undefined or the folder's path
    notices,      \* the notifications one resolution has raised, in order
    cmd,          \* the command the resolution spawned: "" before the spawn
    did,          \* ghost: the steps of the binary branch that have run
    host,         \* process.platform and process.arch
    assets,       \* the asset names of the latest release, in feed order
    hit,          \* what pickAsset returned
    pickPc,       \* "idle", "pick" (before pickAsset) or "done"
    paths,        \* fileCfg.path and the setting expose.path
    files,        \* the files of the managed bin directory, by name
    calls         \* the resolveBinary and installOrUpdate invocations

supVars == <<platform, proc, status, procs, nProcs, starts, nStarts, timers,
             fired, autoRestart, lastOp, runs>>
cfgVars == <<fileCfg, settings, secret, cfgPc, eff, password, args, disk,
             workspace, notices, cmd, did>>
insVars == <<host, assets, hit, pickPc, paths, files, calls>>
vars == <<supVars, cfgVars, insVars>>

None == 0
Pids == 1..(MaxStarts + MaxRuns)
Rids == 1..MaxRuns
Sids == 1..MaxStarts

\* a child process as the extension and the operating system see it
\*   state  "none"    not spawned
\*          "running" alive
\*          "failed"  spawn failed, the error event is pending
\*          "exited"  terminated, the close event is pending
\*          "closed"  the close handler has run
\*   sigint   kill("SIGINT") was delivered
\*   killed   a forceful kill was delivered (SIGKILL or taskkill /t /f)
\*   stopReq  ghost: stopAgent was called while this child was tracked
\*   origin   "cmd" (expose.startAgent), "restart" (config watcher) or
\*            "once" (expose.runOnce)
\*   mode     "compose" or "binary"
NoProc == [state |-> "none", sigint |-> FALSE, killed |-> FALSE,
           stopReq |-> FALSE, origin |-> "cmd", mode |-> "binary"]

\* a startAgent invocation
\*   pc  "none" | "readCfg" | "getPassword" | "resolveBinary" | "done"
NoStart == [pc |-> "none", origin |-> "cmd", mode |-> "binary"]
\* a child that has terminated: what was delivered to it while it lived is
\* of no further consequence, only its handle and its pending events are
Gone(st) == [NoProc EXCEPT !.state = st]
\* the child pr after it has terminated; a one-off child stays marked as one
Ended(pr, st) ==
    [Gone(st) EXCEPT !.origin = IF pr.origin = "once" THEN "once" ELSE "cmd"]

DoneStart == [pc |-> "done", origin |-> "cmd", mode |-> "binary"]

Op(name, notice, result) == [op |-> name, notice |-> notice, result |-> result]

\* ------------------------------------------------------------------------
\* Values of the configuration sources
\* ------------------------------------------------------------------------
\* A string is the sequence of its characters.  A value that may be
\* undefined (or null) is a sequence of at most one element.
Undef == <<>>
Some(v) == <<v>>
Val(o) == o[1]

\* a ?? b
Nullish(a, b) == IF a # Undef THEN a ELSE b

\* a || "" for a string that may be undefined
OrEmpty(a) == IF a = Undef THEN <<>> ELSE Val(a)

\* !!a for a boolean that may be undefined
Truthy(a) == a # Undef /\ Val(a) = TRUE

Whitespace == {" "}

RECURSIVE LTrim(_)
LTrim(str) ==
    IF str # <<>> /\ Head(str) \in Whitespace THEN LTrim(Tail(str)) ELSE str

RECURSIVE RTrim(_)
RTrim(str) ==
    IF str # <<>> /\ str[Len(str)] \in Whitespace
    THEN RTrim(SubSeq(str, 1, Len(str) - 1)) ELSE str

\* String.prototype.trim
Trim(str) == RTrim(LTrim(str))

Digits == <<"0", "1", "2", "3", "4", "5", "6", "7", "8", "9">>

\* String(n) for a non-negative integer
RECURSIVE String(_)
String(n) ==
    IF n < 10 THEN <<Digits[n + 1]>>
    ELSE String(n \div 10) \o <<Digits[(n % 10) + 1]>>

\* the literals of buildArgsFromConfig and startAgent
DefaultSshHost == <<"g","e","t","e","x","p","o","s","e","d",".","i","o">>
DefaultLocalHost == <<"l","o","c","a","l","h","o","s","t">>
DefaultComposeService == <<"e","x","p","o","s","e">>
DefaultSshPort == 2200
DefaultLocalPort == 7500
DefaultBindPort == 0

FlagS == <<"-","s">>
FlagP == <<"-","p">>
FlagLs == <<"-","l","s">>
FlagLp == <<"-","l","p">>
FlagBp == <<"-","b","p">>
FlagId == <<"-","i","d">>
FlagPw == <<"-","p","w">>
FlagA == <<"-","a">>
FlagR == <<"-","r">>

\* the fields of ExposeFileConfig that the resolver reads, and the keys
\* expose.<field> of the settings store
FileFields ==
    {"sshHost", "sshPort", "localHost", "localPort", "bindPort", "id",
     "password", "keepAlive", "autoReconnect", "args", "cwd", "composeFile",
     "composeService", "autoInstall"}
SettingFields == (FileFields \ {"password"}) \cup {"legacyPassword"}

\* a file config and a settings store with nothing in them
NoFile == [f \in FileFields |-> Undef]
NoSettings == [f \in SettingFields |-> Undef]

\* ------------------------------------------------------------------------
\* resolveVars (part_001 lines 78-88)
\* ------------------------------------------------------------------------
\* the variable ${workspaceFolder}, one symbol of a string
WorkspaceFolderVar == <<"${workspaceFolder}">>

\* p.replaceAll("${workspaceFolder}", folder)
RECURSIVE ReplaceAll(_, _)
ReplaceAll(p, folder) ==
    IF p = <<>> THEN <<>>
    ELSE (IF Head(p) = WorkspaceFolderVar[1] THEN folder ELSE <<Head(p)>>)
         \o ReplaceAll(Tail(p), folder)

resolveVars(p) ==
    LET folder == OrEmpty(workspace)
    IN  IF folder # <<>> /\ (\E i \in 1..Len(p) : p[i] = WorkspaceFolderVar[1])
        THEN ReplaceAll(p, folder)
        ELSE p

\* ------------------------------------------------------------------------
\* pickAsset (installer.ts lines 14-45)
\* ------------------------------------------------------------------------
Expose == <<"e", "x", "p", "o", "s", "e">>

\* lines 15-22 and 24-31, for the platforms and architectures they name
OsPartOf(pl) ==
    CASE pl = "win32" -> <<"w", "i", "n", "d", "o", "w", "s">>
      [] pl = "darwin" -> <<"d", "a", "r", "w", "i", "n">>
      [] pl = "linux" -> <<"l", "i", "n", "u", "x">>
ArchPartOf(ar) ==
    CASE ar = "x64" -> <<"a", "m", "d", "6", "4">>
      [] ar = "arm64" -> <<"a", "r", "m", "6", "4">>
      [] ar = "arm" -> <<"a", "r", "m">>

\* lines 33-37: the three name forms, in the order they are tried
AssetName(form, pl, ar) ==
    CASE form = 1 -> Expose \o <<"_">> \o OsPartOf(pl) \o <<"_">>
                     \o ArchPartOf(ar)
      [] form = 2 -> Expose \o <<"-">> \o OsPartOf(pl) \o <<"-">>
                     \o ArchPartOf(ar)
      [] form = 3 -> Expose \o <<"_">> \o ArchPartOf(ar) \o <<"_">>
                     \o OsPartOf(pl)

\* name.includes(part)
Includes(name, part) ==
    \E i \in 0..(Len(name) - Len(part)) :
        SubSeq(name, i + 1, i + Len(part)) = part

\* the letters of "expose" in lower case, as /expose/i compares them
Lower(name) ==
    [i \in 1..Len(name) |->
        CASE name[i] = "E" -> "e" [] name[i] = "X" -> "x"
          [] name[i] = "P" -> "p" [] name[i] = "O" -> "o"
          [] name[i] = "S" -> "s" [] OTHER -> name[i]]

\* list.find(test), given the positions that pass the test: the first
\* element that passes, or undefined
Find(list, passing) ==
    IF passing = {} THEN Undef
    ELSE Some(list[CHOOSE i \in passing : \A j \in passing : i <= j])

\* a variant that takes the first asset of the release
pickAssetFirst(list) == IF list = <<>> THEN Undef ELSE Some(list[1])

pickAsset(list) ==
    LET Hit(f) ==
            LET want == AssetName(f, host.platform, host.arch)
                exact == Find(list, {i \in 1..Len(list) : list[i] = want})
            IN  IF exact # Undef THEN exact
                ELSE Find(list, {i \in 1..Len(list) :
                                    Includes(list[i], want)})
        hits == {f \in 1..3 : Hit(f) # Undef}
    IN  IF hits # {}
        THEN Hit(CHOOSE f \in hits : \A g \in hits : f <= g)
        ELSE Find(list,
                  {i \in 1..Len(list) :
                      /\ Includes(Lower(list[i]), Expose)
                      /\ Includes(list[i], OsPartOf(host.platform))
                      /\ Includes(list[i], ArchPartOf(host.arch))})

\* pickAsset applied to the release's list
Pick ==
    /\ pickPc = "pick"
    /\ hit' = pickAsset(assets)
    /\ pickPc' = "done"
    /\ UNCHANGED <<host, assets, paths, files, calls>>
    /\ UNCHANGED <<supVars, cfgVars>>

NextPick == Pick

\* ------------------------------------------------------------------------
\* ensureExpose (installer.ts lines 75-113) and its callers resolveBinary
\* (part_001 lines 207-224) and installOrUpdate (part_001 lines 196-205)
\* ------------------------------------------------------------------------
Cids == 1..MaxCalls

\* line 86
BinName ==
    IF host.platform = "win32" THEN Expose \o <<".", "e", "x", "e">>
    ELSE Expose

\* A file of the bin directory is "absent", "partial" (created, its content
\* not or not yet all written), "full" (written, not marked executable),
\* "exec" (written and marked executable) or "old" (a runnable binary that
\* was there before the extension started).
\*
\* An invocation, with the ensureExpose call it is in
\*   pc       "none" | "mkdir" | "fetch" | "download" | "hash" | "copy" |
\*            "chmod" | "done"
\*   kind     "resolveBinary" or "installOrUpdate"
\*   autoInstall   the flag resolveBinary reads on line 217
\*   install  opts.installIfMissing of the current call
\*   asset    the name pickAsset returned
\*   result   "userPath", "binPath", "undefined" or the error thrown
\*   notice   the notification of installOrUpdate; "caller" when the
\*            rejection is left to the caller of resolveBinary
\*   ghosts: pre (the managed file when the current call looked for it,
\*   after mkdir; files are never deleted, so a file that is there when a
\*   call begins is there then), net (a
\*   request was sent), dl (the download to the temp file completed),
\*   wrote (the names written to), threw (the error thrown last)
NoCall ==
    [pc |-> "none", kind |-> "resolveBinary", autoInstall |-> FALSE,
     install |-> FALSE, asset |-> <<>>, result |-> "", notice |-> "none",
     pre |-> "none", net |-> FALSE, dl |-> FALSE, wrote |-> {},
     threw |-> ""]

NextCall == Cardinality({c \in Cids : calls[c].pc # "none"}) + 1

\* the caller gets its answer: installOrUpdate lines 199 and 202, and
\* resolveBinary lines 213 and 220
Return(c, res) ==
    [c EXCEPT !.pc = "done", !.result = res,
              !.notice = IF c.kind = "installOrUpdate" THEN "info"
                         ELSE "none"]

\* ensureExpose lines 79-84, up to the await of mkdir
Enter(c, inst) ==
    IF Trim(OrEmpty(paths.setting)) # <<>>
    THEN Return(c, "userPath")
    ELSE [c EXCEPT !.pc = "mkdir", !.install = inst]

\* ensureExpose throws err: resolveBinary swallows what its first call
\* throws (lines 212-215) and goes on to line 217; installOrUpdate reports
\* (line 202); a rejection of the second call is the caller's to handle
Throw(c, err) ==
    LET t == [c EXCEPT !.threw = err]
    IN  IF c.kind = "installOrUpdate"
        THEN [t EXCEPT !.pc = "done", !.result = err, !.notice = "error"]
        ELSE IF c.install
        THEN [t EXCEPT !.pc = "done", !.result = err, !.notice = "caller"]
        ELSE IF c.autoInstall
        THEN Enter(t, TRUE)
        ELSE [t EXCEPT !.pc = "done", !.result = "undefined"]

\* resolveBinary lines 208-212
resolveBinary ==
    /\ NextCall \in Cids
    /\ \E auto \in BOOLEAN :
          LET c == [NoCall EXCEPT !.autoInstall = auto]
              userPath ==
                  Trim(Val(Nullish(Nullish(paths.file, paths.setting),
                                   Some(<<>>))))
          IN  calls' = [calls EXCEPT ![NextCall] =
                           IF userPath # <<>> THEN Return(c, "userPath")
                           ELSE Enter(c, FALSE)]
    /\ UNCHANGED <<host, assets, hit, pickPc, paths, files>>
    /\ UNCHANGED <<supVars, cfgVars>>

\* installOrUpdate lines 197-198
installOrUpdate ==
    /\ NextCall \in Cids
    /\ calls' = [calls EXCEPT ![NextCall] =
                    Enter([NoCall EXCEPT !.kind = "installOrUpdate"], TRUE)]
    /\ UNCHANGED <<host, assets, hit, pickPc, paths, files>>
    /\ UNCHANGED <<supVars, cfgVars>>

\* fs.existsSync(name)
existsSync(name) == files[name] # "absent"

\* a variant in which an install request looks past the installed file
CacheHitUnlessInstalling(c) == existsSync(BinName) /\ ~calls[c].install

\* line 89: if (fs.existsSync(binPath))
CacheHit(c) == existsSync(BinName)

\* a variant that never refuses
RefusesNever(c) == FALSE

\* line 91: if (!opts.installIfMissing)
Refuses(c) == ~calls[c].install

\* lines 84-95: mkdir has resolved
EnsureCheck(c) ==
    /\ calls[c].pc = "mkdir"
    /\ LET seen == [calls[c] EXCEPT !.pre = files[BinName]]
       IN  calls' = [calls EXCEPT ![c] =
                        IF CacheHit(c) THEN Return(seen, "binPath")
                        ELSE IF Refuses(c) THEN Throw(seen, "NotInstalled")
                        ELSE [seen EXCEPT !.pc = "fetch", !.net = TRUE]]
    /\ UNCHANGED <<host, assets, hit, pickPc, paths, files>>
    /\ UNCHANGED <<supVars, cfgVars>>

\* the asset lists a release may hold on this host: none, none for the
\* host, and the host's asset in the first or the second form
Feeds ==
    {<<>>, <<Expose, Expose \o <<".", "e", "x", "e">> >>,
     <<Expose, AssetName(1, host.platform, host.arch)>>,
     <<AssetName(2, host.platform, host.arch)>>}

\* lines 95-102, httpJson lines 47-56: the release request has settled
FetchDone(c) ==
    /\ calls[c].pc = "fetch"
    /\ \/ calls' = [calls EXCEPT ![c] = Throw(calls[c], "NetworkError")]
       \/ \E list \in Feeds :
             calls' = [calls EXCEPT ![c] =
                          IF pickAsset(list) = Undef
                          THEN Throw(calls[c], "NoMatchingAsset")
                          ELSE [calls[c] EXCEPT
                                   !.pc = "download",
                                   !.asset = Val(pickAsset(list))]]
    /\ UNCHANGED <<host, assets, hit, pickPc, paths, files>>
    /\ UNCHANGED <<supVars, cfgVars>>

\* lines 101-102, download lines 58-63: the request fails or the body
\* does not arrive whole (nothing is written), or writeFile fails part
\* way, or the temp file is written
DownloadDone(c) ==
    /\ calls[c].pc = "download"
    /\ LET tmpFile == calls[c].asset
       IN  \/ /\ calls' = [calls EXCEPT ![c] =
                               Throw(calls[c], "NetworkError")]
              /\ UNCHANGED files
           \/ /\ files' = [files EXCEPT ![tmpFile] = "partial"]
              /\ calls' = [calls EXCEPT ![c] =
                               Throw([calls[c] EXCEPT
                                         !.wrote = @ \cup {tmpFile}],
                                     "WriteError")]
           \/ /\ files' = [files EXCEPT ![tmpFile] = "full"]
              /\ calls' = [calls EXCEPT ![c].pc = "hash",
                                        ![c].dl = TRUE,
                                        ![c].wrote = @ \cup {tmpFile}]
    /\ UNCHANGED <<host, assets, hit, pickPc, paths>>
    /\ UNCHANGED <<supVars, cfgVars>>

\* lines 104-107: the hash is logged and copyFile begins to write binPath
HashDone(c) ==
    /\ calls[c].pc = "hash"
    /\ files' = [files EXCEPT ![BinName] = "partial"]
    /\ calls' = [calls EXCEPT ![c].pc = "copy",
                              ![c].wrote = @ \cup {BinName}]
    /\ UNCHANGED <<host, assets, hit, pickPc, paths>>
    /\ UNCHANGED <<supVars, cfgVars>>

\* lines 107-112: copyFile has resolved; binPath holds what the temp file
\* held.  On win32 the call returns here.
CopyDone(c) ==
    /\ calls[c].pc = "copy"
    /\ files' = [files EXCEPT ![BinName] = files[calls[c].asset]]
    /\ calls' = [calls EXCEPT ![c] =
                    IF host.platform = "win32"
                    THEN Return(calls[c], "binPath")
                    ELSE [calls[c] EXCEPT !.pc = "chmod"]]
    /\ UNCHANGED <<host, assets, hit, pickPc, paths>>
    /\ UNCHANGED <<supVars, cfgVars>>

\* lines 108-112: chmod has resolved
ChmodDone(c) ==
    /\ calls[c].pc = "chmod"
    /\ files' = [files EXCEPT ![BinName] =
                    IF @ = "full" THEN "exec" ELSE @]
    /\ calls' = [calls EXCEPT ![c] = Return(calls[c], "binPath")]
    /\ UNCHANGED <<host, assets, hit, pickPc, paths>>
    /\ UNCHANGED <<supVars, cfgVars>>

NextInstall ==
    \/ resolveBinary
    \/ installOrUpdate
    \/ \E c \in Cids : EnsureCheck(c)
    \/ \E c \in Cids : FetchDone(c)
    \/ \E c \in Cids : DownloadDone(c)
    \/ \E c \in Cids : HashDone(c)
    \/ \E c \in Cids : CopyDone(c)
    \/ \E c \in Cids : ChmodDone(c)

\* ------------------------------------------------------------------------
\* readExposeConfigFile (part_001 lines 90-103)
\* ------------------------------------------------------------------------
\* disk.path is the setting expose.configFile, disk.state what reading and
\* parsing the file at the resolved path comes to ("ok", "missing",
\* "malformed"), disk.content the object a successful parse gives

\* a variant that swallows the failure without telling the user
readExposeConfigFileSilent ==
    LET cfgPath == Trim(OrEmpty(disk.path))
    IN  IF cfgPath # <<>> /\ disk.state = "ok"
        THEN [cfg |-> Some(disk.content), notices |-> <<>>]
        ELSE [cfg |-> Undef, notices |-> <<>>]

readExposeConfigFile ==
    LET cfgPath == Trim(OrEmpty(disk.path))
    IN  IF cfgPath = <<>> THEN [cfg |-> Undef, notices |-> <<>>]
        ELSE IF disk.state = "ok"
        THEN [cfg |-> Some(disk.content), notices |-> <<>>]
        ELSE [cfg |-> Undef, notices |-> <<"warning">>]

\* ------------------------------------------------------------------------
\* getPassword (part_001 lines 105-113)
\* ------------------------------------------------------------------------
\* a variant that consults the legacy setting before the secret store
getPasswordLegacyFirst ==
    LET legacy == Trim(OrEmpty(settings.legacyPassword))
    IN  IF legacy # <<>> THEN legacy ELSE Trim(OrEmpty(secret))

getPassword ==
    LET sec == OrEmpty(secret)
        legacy == Trim(OrEmpty(settings.legacyPassword))
    IN  IF Trim(sec) # <<>> THEN Trim(sec) ELSE legacy

\* ------------------------------------------------------------------------
\* buildArgsFromConfig (part_001 lines 235-275)
\* ------------------------------------------------------------------------
\* a variant with the two sources the other way round
ConfiguredSettingsFirst(fc, f) == Nullish(settings[f], fc[f])

\* fileCfg.f ?? getCfg("expose.f")
Configured(fc, f) == Nullish(fc[f], settings[f])

\* lines 238, 241, 246: (fileCfg.f ?? getCfg(f) ?? dflt).trim()
StrField(fc, f, dflt) == Trim(Val(Nullish(Configured(fc, f), Some(dflt))))

\* lines 239, 242, 244: fileCfg.f ?? getCfg(f) ?? dflt
NumField(fc, f, dflt) == Val(Nullish(Configured(fc, f), Some(dflt)))

\* lines 248-249: !!(fileCfg.f ?? getCfg(f))
BoolField(fc, f) == Truthy(Configured(fc, f))

\* lines 252-255, 258: a flag with its value, when the value is truthy
SshHostArgs(fc) ==
    LET sshHost == StrField(fc, "sshHost", DefaultSshHost)
    IN  IF sshHost # <<>> THEN <<FlagS, sshHost>> ELSE <<>>

SshPortArgs(fc) ==
    LET sshPort == NumField(fc, "sshPort", DefaultSshPort)
    IN  IF sshPort # 0 THEN <<FlagP, String(sshPort)>> ELSE <<>>

LocalHostArgs(fc) ==
    LET localHost == StrField(fc, "localHost", DefaultLocalHost)
    IN  IF localHost # <<>> THEN <<FlagLs, localHost>> ELSE <<>>

LocalPortArgs(fc) ==
    LET localPort == NumField(fc, "localPort", DefaultLocalPort)
    IN  IF localPort # 0 THEN <<FlagLp, String(localPort)>> ELSE <<>>

\* a variant that treats the bind port like the other ports
BindPortArgsIfSet(fc) ==
    LET bindPort == NumField(fc, "bindPort", DefaultBindPort)
    IN  IF bindPort # 0 THEN <<FlagBp, String(bindPort)>> ELSE <<>>

\* line 256: args.push("-bp", String(bindPort || 0))
BindPortArgs(fc) ==
    LET bindPort == NumField(fc, "bindPort", DefaultBindPort)
    IN  <<FlagBp, String(IF bindPort # 0 THEN bindPort ELSE 0)>>

IdArgs(fc) ==
    LET id == StrField(fc, "id", <<>>)
    IN  IF id # <<>> THEN <<FlagId, id>> ELSE <<>>

\* lines 261-262: the password that goes after -pw
FinalPassword(fc, pw) ==
    LET filePassword == Trim(Val(Nullish(fc.password, Some(<<>>))))
    IN  Trim(IF pw # <<>> THEN pw ELSE filePassword)

\* line 263
PasswordArgs(fc, pw) ==
    LET finalPassword == FinalPassword(fc, pw)
    IN  IF finalPassword # <<>> THEN <<FlagPw, finalPassword>> ELSE <<>>

\* lines 265-266
SwitchArgs(fc) ==
    (IF BoolField(fc, "keepAlive") THEN <<FlagA>> ELSE <<>>)
    \o (IF BoolField(fc, "autoReconnect") THEN <<FlagR>> ELSE <<>>)

\* lines 270-272: the trimmed non-blank tokens of a list
RECURSIVE TrimmedTokens(_)
TrimmedTokens(list) ==
    IF list = <<>> THEN <<>>
    ELSE (IF Trim(Head(list)) # <<>> THEN <<Trim(Head(list))>> ELSE <<>>)
         \o TrimmedTokens(Tail(list))

\* a variant in which the file's list replaces the settings' list
ExtraArgsFileHidesSettings(fc) ==
    TrimmedTokens(Val(Nullish(fc.args, Nullish(settings.args, Some(<<>>)))))

\* lines 268-272
ExtraArgs(fc) ==
    LET extraFromFile == Val(Nullish(fc.args, Some(<<>>)))
        extraFromSettings == Val(Nullish(settings.args, Some(<<>>)))
    IN  TrimmedTokens(extraFromFile \o extraFromSettings)

\* a variant that pushes the password before the id
buildArgsPasswordFirst(fc, pw) ==
    SshHostArgs(fc) \o SshPortArgs(fc) \o LocalHostArgs(fc)
    \o LocalPortArgs(fc) \o BindPortArgs(fc) \o PasswordArgs(fc, pw)
    \o IdArgs(fc) \o SwitchArgs(fc) \o ExtraArgs(fc)

buildArgsFromConfig(fc, pw) ==
    SshHostArgs(fc) \o SshPortArgs(fc) \o LocalHostArgs(fc)
    \o LocalPortArgs(fc) \o BindPortArgs(fc) \o IdArgs(fc)
    \o PasswordArgs(fc, pw) \o SwitchArgs(fc) \o ExtraArgs(fc)

\* ------------------------------------------------------------------------
\* One configuration resolution, as startAgent performs it (runOnce does the
\* same without the compose branch)
\* ------------------------------------------------------------------------
NoEff == [composeFile |-> <<>>, composeService |-> <<>>, cwd |-> <<>>,
          dir |-> <<>>, autoInstall |-> FALSE]

\* os.homedir()
HomeDir == <<"/", "h">>

\* a variant that hands the configured directory on without substitution
resolveCwdUnresolved(fc) ==
    LET setting == StrField(fc, "cwd", <<>>)
    IN  IF setting # <<>> THEN setting
        ELSE IF OrEmpty(workspace) # <<>> THEN Val(workspace) ELSE HomeDir

\* resolveCwd, part_001 lines 226-233
resolveCwd(fc) ==
    LET setting == StrField(fc, "cwd", <<>>)
    IN  IF setting # <<>>
        THEN LET resolved == resolveVars(setting)
             IN  IF resolved # <<>> THEN resolved ELSE HomeDir
        ELSE IF OrEmpty(workspace) # <<>> THEN Val(workspace) ELSE HomeDir

\* startAgent line 283, runOnce line 350:
\* (await readExposeConfigFile()) ?? {}
CfgReadFile ==
    /\ cfgPc = "read"
    /\ LET r == readExposeConfigFile
       IN  /\ fileCfg' = Val(Nullish(r.cfg, Some(NoFile)))
           /\ notices' = notices \o r.notices
    /\ cfgPc' = "start"
    /\ UNCHANGED <<settings, secret, eff, password, args, disk, workspace,
                   cmd, did>>
    /\ UNCHANGED <<supVars, insVars>>

\* startAgent lines 284-287, resolveCwd lines 226-233: the compose pair,
\* the working-directory setting and the working directory
CfgResolve ==
    /\ cfgPc = "start"
    /\ eff' = [composeFile |-> StrField(fileCfg, "composeFile", <<>>),
               composeService |->
                   StrField(fileCfg, "composeService", DefaultComposeService),
               cwd |-> StrField(fileCfg, "cwd", <<>>),
               dir |-> resolveCwd(fileCfg),
               autoInstall |-> FALSE]
    /\ cfgPc' = "password"
    /\ UNCHANGED <<fileCfg, settings, secret, password, args, disk,
                   workspace, notices, cmd, did>>
    /\ UNCHANGED <<supVars, insVars>>

\* startAgent line 288, runOnce line 352
CfgGetPassword ==
    /\ cfgPc = "password"
    /\ password' = getPassword
    /\ cfgPc' = "build"
    /\ UNCHANGED <<fileCfg, settings, secret, eff, args, disk, workspace,
                   notices, cmd, did>>
    /\ UNCHANGED <<supVars, insVars>>

\* a variant that takes a configured compose file, blank or not, for
\* compose mode
ComposeModeWhenConfigured == Configured(fileCfg, "composeFile") # Undef

\* startAgent line 294: if (composeFile)
ComposeMode == eff.composeFile # <<>>

Compose == <<"c", "o", "m", "p", "o", "s", "e">>
DashF == <<"-", "f">>
Up == <<"u", "p">>

\* startAgent lines 295-298: the compose branch
CfgSpawnCompose ==
    /\ cfgPc = "build"
    /\ ComposeMode
    /\ args' = <<Compose, DashF, resolveVars(eff.composeFile), Up,
                 eff.composeService>>
    /\ cmd' = "docker"
    /\ cfgPc' = "spawned"
    /\ UNCHANGED <<fileCfg, settings, secret, eff, password, disk, workspace,
                   notices, did>>
    /\ UNCHANGED <<supVars, insVars>>

\* startAgent lines 300-308, with resolveBinary line 217: the binary branch,
\* for a binary that resolves
CfgBuildArgs ==
    /\ cfgPc = "build"
    /\ ~ComposeMode
    /\ eff' = [eff EXCEPT !.autoInstall = BoolField(fileCfg, "autoInstall")]
    /\ args' = buildArgsFromConfig(fileCfg, password)
    /\ cmd' = "expose"
    /\ did' = {"resolveBinary", "buildArgsFromConfig"}
    /\ cfgPc' = "built"
    /\ UNCHANGED <<fileCfg, settings, secret, password, disk, workspace,
                   notices>>
    /\ UNCHANGED <<supVars, insVars>>

NextCfg ==
    \/ CfgReadFile
    \/ CfgResolve
    \/ CfgGetPassword
    \/ CfgSpawnCompose
    \/ CfgBuildArgs

\* ------------------------------------------------------------------------
\* The configurations the resolver is run on
\* ------------------------------------------------------------------------

\* the defaults the settings store returns for an unset key (README,
\* section Settings); the compose keys have none
DefaultSettings ==
    [sshHost |-> Some(DefaultSshHost), sshPort |-> Some(DefaultSshPort),
     localHost |-> Some(DefaultLocalHost),
     localPort |-> Some(DefaultLocalPort),
     bindPort |-> Some(DefaultBindPort), id |-> Some(<<>>),
     keepAlive |-> Some(FALSE), autoReconnect |-> Some(FALSE),
     args |-> Some(<<>>), cwd |-> Some(WorkspaceFolderVar),
     composeFile |-> Undef, composeService |-> Undef,
     autoInstall |-> Some(TRUE), legacyPassword |-> Some(<<>>)]

\* a settings store with every flag switched on
FullSettings ==
    [sshHost |-> Some(<<"h">>), sshPort |-> Some(22),
     localHost |-> Some(<<"l">>), localPort |-> Some(80),
     bindPort |-> Some(9), id |-> Some(<<"i">>),
     keepAlive |-> Some(TRUE), autoReconnect |-> Some(TRUE),
     args |-> Some(<< <<"-","v">> >>), cwd |-> Some(<<"/","w">>),
     composeFile |-> Some(<<>>), composeService |-> Some(<<"c">>),
     autoInstall |-> Some(FALSE), legacyPassword |-> Undef]

Input(fc, st, sec) == [file |-> fc, settings |-> st, secret |-> sec]

Bases ==
    {Input(NoFile, DefaultSettings, Undef),
     Input(NoFile, NoSettings, Undef),
     Input(NoFile, FullSettings, Some(<<"k">>))}

Pad(n) == [i \in 1..n |-> " "]

\* the strings around a core value: undefined, blank, and the core with up
\* to MaxPad blanks on either side
StrDom(core) ==
    {Undef}
    \cup {Some(Pad(i)) : i \in 0..MaxPad}
    \cup {Some(Pad(i) \o core \o Pad(j)) : i \in 0..MaxPad, j \in 0..MaxPad}

StrFields ==
    {"sshHost", "localHost", "id", "cwd", "composeFile", "composeService"}
NumFields == {"sshPort", "localPort", "bindPort"}
BoolFields == {"keepAlive", "autoReconnect", "autoInstall"}
SharedFields == StrFields \cup NumFields \cup BoolFields \cup {"args"}

\* the values a field takes in the file (who = "f") and in the settings
\* (who = "s"); the two sources never offer the same non-blank value
FieldDom(f, who) ==
    CASE f \in StrFields -> StrDom(<<who, " ", "v">>)
      [] f \in NumFields ->
            {Undef, Some(0), Some(IF who = "f" THEN 443 ELSE 8080)}
      [] f \in BoolFields -> {Undef, Some(FALSE), Some(TRUE)}
      [] f = "args" ->
            {Undef, Some(<<>>), Some(<< <<who, "1">> >>),
             Some(<< Pad(1), Pad(1) \o <<who, "2">> \o Pad(1), <<>>,
                     <<who, "3">> >>)}

\* one field varies over both sources, the rest is a base
FieldInputs(b, f) ==
    {Input([b.file EXCEPT ![f] = x], [b.settings EXCEPT ![f] = y], b.secret) :
        x \in FieldDom(f, "f"), y \in FieldDom(f, "s")}

\* the three sources of the password vary, the rest is a base
PasswordInputs(b) ==
    {Input([b.file EXCEPT !.password = x],
           [b.settings EXCEPT !.legacyPassword = y], z) :
        x \in StrDom(<<"f", "p">>), y \in StrDom(<<"l", "p">>),
        z \in StrDom(<<"s", "p">>)}

\* every combination of flags present and absent
FlagKeys == {"s", "p", "ls", "lp", "bp", "id", "pw", "a", "r", "x"}
PresenceInputs ==
    {Input(NoFile,
           [sshHost |-> Some(IF on["s"] THEN <<"h">> ELSE <<>>),
            sshPort |-> Some(IF on["p"] THEN 22 ELSE 0),
            localHost |-> Some(IF on["ls"] THEN <<"l">> ELSE <<>>),
            localPort |-> Some(IF on["lp"] THEN 80 ELSE 0),
            bindPort |-> Some(IF on["bp"] THEN 9 ELSE 0),
            id |-> Some(IF on["id"] THEN <<"i">> ELSE <<>>),
            keepAlive |-> Some(on["a"]), autoReconnect |-> Some(on["r"]),
            args |-> Some(IF on["x"] THEN << <<"-","v">> >> ELSE <<>>),
            cwd |-> Undef, composeFile |-> Undef, composeService |-> Undef,
            autoInstall |-> Undef, legacyPassword |-> Undef],
           IF on["pw"] THEN Some(<<"k">>) ELSE Undef) :
        on \in [FlagKeys -> BOOLEAN]}

CfgInputs ==
    UNION {FieldInputs(b, f) : b \in Bases, f \in SharedFields}
    \cup UNION {PasswordInputs(b) : b \in Bases}
    \cup PresenceInputs

\* a config file with every flag in it
FullFile ==
    [sshHost |-> Some(<<"f", "h">>), sshPort |-> Some(443),
     localHost |-> Some(<<"f", "l">>), localPort |-> Some(81),
     bindPort |-> Some(7), id |-> Some(<<"f", "i">>),
     password |-> Some(<<"f", "p">>), keepAlive |-> Some(TRUE),
     autoReconnect |-> Some(TRUE), args |-> Some(<< <<"f", "1">> >>),
     cwd |-> Some(<<"/", "f">>), composeFile |-> Undef,
     composeService |-> Undef, autoInstall |-> Some(TRUE)]

ConfigPath == <<"c">>
Folder == <<"/", "w">>

\* expose.configFile left at its default "", and no such file
NoDisk == [path |-> Some(<<>>), state |-> "missing", content |-> NoFile]
\* expose.configFile names a file that parses to fc
Readable(fc) == [path |-> Some(ConfigPath), state |-> "ok", content |-> fc]

\* a resolution's surroundings: settings and secret, the config file, the
\* workspace folder
Scene(in, dk, ws) ==
    [settings |-> in.settings, secret |-> in.secret, disk |-> dk,
     workspace |-> ws]

\* every way the setting expose.configFile and its file can be
DiskScenes ==
    {Scene(b, [path |-> pa, state |-> st, content |-> fc], ws) :
        b \in Bases,
        pa \in StrDom(ConfigPath) \cup {Some(WorkspaceFolderVar \o ConfigPath)},
        st \in {"ok", "missing", "malformed"},
        fc \in {NoFile, FullFile},
        ws \in {Undef, Some(Folder)}}

\* compose files that name the workspace folder, with and without one
ComposeDom(who) ==
    {Undef, Some(WorkspaceFolderVar \o <<"/", who>>),
     Some(Pad(1) \o WorkspaceFolderVar \o <<"/">> \o WorkspaceFolderVar
          \o Pad(1))}
ComposeScenes ==
    {Scene(Input(NoFile, [b.settings EXCEPT !.composeFile = y], b.secret),
           Readable([NoFile EXCEPT !.composeFile = x]), ws) :
        b \in Bases, x \in ComposeDom("f"), y \in ComposeDom("s"),
        ws \in {Undef, Some(Folder)}}

\* working directories that name the workspace folder, blank ones and none,
\* with and without a workspace folder
CwdDom(who) ==
    {Undef, Some(Pad(1)), Some(<<"/", who>>), Some(WorkspaceFolderVar),
     Some(Pad(1) \o WorkspaceFolderVar \o <<"/", who>> \o WorkspaceFolderVar
          \o Pad(1))}
CwdScenes ==
    {Scene(Input(NoFile, [b.settings EXCEPT !.cwd = y], b.secret),
           Readable([NoFile EXCEPT !.cwd = x]), ws) :
        b \in Bases, x \in CwdDom("f"), y \in CwdDom("s"),
        ws \in {Undef, Some(Folder)}}

CfgScenes ==
    {Scene(in, Readable(in.file), Some(Folder)) : in \in CfgInputs}
    \cup DiskScenes \cup ComposeScenes \cup CwdScenes

\* ------------------------------------------------------------------------
\* Initial states
\* ------------------------------------------------------------------------
InitSupervisor ==
    /\ proc = None
    /\ status = "idle"
    /\ procs = [p \in Pids |-> NoProc]
    /\ nProcs = 0
    /\ starts = [s \in Sids |-> NoStart]
    /\ nStarts = 0
    /\ timers = {}
    /\ fired = {}
    /\ autoRestart = TRUE
    /\ lastOp = Op("activate", "none", "ok")
    /\ runs = [r \in Rids |-> "none"]

InitResolver(sc, pc) ==
    /\ fileCfg = NoFile
    /\ settings = sc.settings
    /\ secret = sc.secret
    /\ disk = sc.disk
    /\ workspace = sc.workspace
    /\ cfgPc = pc
    /\ eff = NoEff
    /\ password = <<>>
    /\ args = <<>>
    /\ notices = <<>>
    /\ cmd = ""
    /\ did = {}

\* the supported platforms and architectures
Hosts ==
    [platform : {"win32", "darwin", "linux"}, arch : {"x64", "arm64", "arm"}]

\* the names a release may give the asset for host h, and the names it may
\* give the assets for the other hosts
NamesFor(h) == {AssetName(f, h.platform, h.arch) : f \in 1..3}
DecoysFor(h) == UNION {NamesFor(g) : g \in Hosts \ {h}}

\* the releases with exactly one asset named for h and at most MaxDecoys
\* assets named for other hosts, in any order
Releases(h) ==
    {list \in UNION {[1..n -> NamesFor(h) \cup DecoysFor(h)] :
                        n \in 1..(MaxDecoys + 1)} :
        /\ Cardinality({i \in 1..Len(list) : list[i] \in NamesFor(h)}) = 1
        /\ \A i, j \in 1..Len(list) : list[i] = list[j] => i = j}

\* every name a file of the bin directory may have
FileNames ==
    {Expose, Expose \o <<".", "e", "x", "e">>}
    \cup UNION {NamesFor(h) : h \in Hosts}

\* no path configured, nothing installed, no call made
NoPaths == [file |-> Undef, setting |-> Undef]
NoFiles == [n \in FileNames |-> "absent"]
NoCalls == [c \in Cids |-> NoCall]

\* no installer at work: nothing in the bin directory and no invocation,
\* each the function with no entries (the installer's actions are not among
\* the steps of the specifications that begin here)
InitInstaller ==
    /\ host = [platform |-> "linux", arch |-> "x64"]
    /\ assets = <<>>
    /\ hit = Undef
    /\ pickPc = "idle"
    /\ paths = NoPaths
    /\ files = <<>>
    /\ calls = <<>>

\* the ways fileCfg.path and expose.path may be set
PathInputs ==
    {NoPaths, [file |-> Undef, setting |-> Some(Pad(1))],
     [file |-> Undef, setting |-> Some(Pad(1) \o <<"/", "x">>)],
     [file |-> Some(<<"/", "y">>), setting |-> Undef],
     [file |-> Some(<<>>), setting |-> Some(<<"/", "x">>)]}

\* the installer alone: on a posix and on a win32 host, with and without
\* a binary installed earlier
InitInstall ==
    /\ host \in {[platform |-> "linux", arch |-> "arm"],
                  [platform |-> "win32", arch |-> "x64"]}
    /\ platform = (IF host.platform = "win32" THEN "win32" ELSE "posix")
    /\ InitSupervisor
    /\ InitResolver(Scene(Input(NoFile, DefaultSettings, Undef), NoDisk,
                           Some(Folder)), "idle")
    /\ assets = <<>>
    /\ hit = Undef
    /\ pickPc = "idle"
    /\ paths \in PathInputs
    /\ \E b \in {"absent", "old"} : files = [NoFiles EXCEPT ![BinName] = b]
    /\ calls = NoCalls

\* pickAsset alone, on every release of every host
InitPick ==
    /\ host \in Hosts
    /\ platform = (IF host.platform = "win32" THEN "win32" ELSE "posix")
    /\ InitSupervisor
    /\ InitResolver(Scene(Input(NoFile, DefaultSettings, Undef), NoDisk,
                           Some(Folder)), "idle")
    /\ assets \in Releases(host)
    /\ hit = Undef
    /\ pickPc = "pick"
    /\ paths = NoPaths
    /\ files = NoFiles
    /\ calls = NoCalls

\* the supervisor, on either kind of platform, with the default settings
Init ==
    /\ platform \in {"posix", "win32"}
    /\ InitSupervisor
    /\ InitResolver(Scene(Input(NoFile, DefaultSettings, Undef), NoDisk,
                           Some(Folder)), "idle")
    /\ InitInstaller

\* the supervisor once all starts but one have been used up by starts that
\* ended with no binary
InitOnce ==
    /\ platform \in {"posix", "win32"}
    /\ proc = None
    /\ status = "idle"
    /\ procs = [p \in Pids |-> NoProc]
    /\ nProcs = 0
    /\ starts = [s \in Sids |-> IF s < MaxStarts THEN DoneStart ELSE NoStart]
    /\ nStarts = MaxStarts - 1
    /\ timers = {}
    /\ fired = {}
    /\ autoRestart = TRUE
    /\ lastOp = Op("startAgent", "warn", "nobinary")
    /\ runs = [r \in Rids |-> "none"]
    /\ InitResolver(Scene(Input(NoFile, DefaultSettings, Undef), NoDisk,
                           Some(Folder)), "idle")
    /\ InitInstaller

\* the resolver alone, in every one of CfgScenes
InitCfg ==
    /\ platform = "posix"
    /\ InitSupervisor
    /\ \E sc \in CfgScenes : InitResolver(sc, "read")
    /\ InitInstaller

\* ------------------------------------------------------------------------
\* stopAgent (part_001 lines 329-347)
\* ------------------------------------------------------------------------
\* the signal stopAgent delivers to the tracked child pr: taskkill /t /f on
\* win32, kill("SIGINT") elsewhere; a child that is no longer alive takes none
StopSignal(ps, pr) ==
    IF ps[pr].state # "running"
    THEN [ps EXCEPT ![pr].stopReq = TRUE]
    ELSE IF platform = "win32"
         THEN [ps EXCEPT ![pr].killed = TRUE, ![pr].stopReq = TRUE]
         ELSE [ps EXCEPT ![pr].sigint = TRUE, ![pr].stopReq = TRUE]

\* the timers after stopAgent: setTimeout(..., 1500) on non-Windows only.
\* A timer is named by the child the stop was for; the callback itself
\* holds no reference to it (see TimerFire).
StopTimers(ts, pr) ==
    IF platform = "win32" THEN ts ELSE ts \cup {pr}

\* a variant of stopAgent that arms its timer before looking at proc
stopAgentUnguarded ==
    /\ timers' = StopTimers(timers, proc)
    /\ procs' = IF proc = None THEN procs ELSE StopSignal(procs, proc)
    /\ proc' = None
    /\ status' = "idle"
    /\ lastOp' = Op("stopAgent", "none", "stopped")
    /\ UNCHANGED <<platform, nProcs, starts, nStarts, fired, autoRestart>>
    /\ UNCHANGED <<runs, cfgVars, insVars>>

\* a variant of stopAgent that clears proc and leaves the status bar alone
stopAgentStatusKept ==
    /\ IF proc = None
       THEN /\ lastOp' = Op("stopAgent", "none", "noop")
            /\ UNCHANGED <<platform, proc, status, procs, nProcs, starts,
                           nStarts, timers, fired, autoRestart>>
       ELSE /\ procs' = StopSignal(procs, proc)
            /\ timers' = StopTimers(timers, proc)
            /\ proc' = None
            /\ lastOp' = Op("stopAgent", "none", "stopped")
            /\ UNCHANGED <<platform, status, nProcs, starts, nStarts, fired,
                           autoRestart>>
    /\ UNCHANGED <<runs, cfgVars, insVars>>

stopAgent ==
    /\ IF proc = None
       THEN /\ lastOp' = Op("stopAgent", "none", "noop")
            /\ UNCHANGED <<platform, proc, status, procs, nProcs, starts,
                           nStarts, timers, fired, autoRestart>>
       ELSE /\ procs' = StopSignal(procs, proc)
            /\ timers' = StopTimers(timers, proc)
            /\ proc' = None
            /\ status' = "idle"
            /\ lastOp' = Op("stopAgent", "none", "stopped")
            /\ UNCHANGED <<platform, nProcs, starts, nStarts, fired,
                           autoRestart>>
    /\ UNCHANGED <<runs, cfgVars, insVars>>

\* the setTimeout callback of stopAgent, line 337:
\*     () => proc && proc.kill("SIGKILL")
\* It reads the module variable proc when it runs, 1500ms after the stop.
TimerFire(t) ==
    /\ t \in timers
    /\ timers' = timers \ {t}
    /\ fired' = IF t # None /\ procs[t].state = "running"
                THEN fired \cup {t} ELSE fired
    /\ procs' = IF proc # None /\ procs[proc].state = "running"
                THEN [procs EXCEPT ![proc].killed = TRUE]
                ELSE procs
    /\ lastOp' = Op("timer", "none", IF proc # None THEN "kill" ELSE "skip")
    /\ UNCHANGED <<platform, proc, status, nProcs, starts, nStarts,
                   autoRestart>>
    /\ UNCHANGED <<runs, cfgVars, insVars>>

\* ------------------------------------------------------------------------
\* startAgent (part_001 lines 277-322)
\* ------------------------------------------------------------------------
\* a new invocation suspended in readExposeConfigFile (line 283)
NewStart(o) ==
    [pc |-> "readCfg", origin |-> o, mode |-> "binary"]

\* a variant of the entry of startAgent without the guard of line 278
startAgentUnguarded ==
    /\ nStarts < MaxStarts
    /\ nStarts' = nStarts + 1
    /\ starts' = [starts EXCEPT ![nStarts + 1] = NewStart("cmd")]
    /\ lastOp' = Op("startAgent", "none", "suspended")
    /\ UNCHANGED <<platform, proc, status, procs, nProcs, timers, fired,
                   autoRestart>>
    /\ UNCHANGED <<runs, cfgVars, insVars>>

\* lines 277-283: the command expose.startAgent up to its first await
startAgent ==
    /\ IF proc # None
       THEN /\ lastOp' = Op("startAgent", "info", "rejected")
            /\ UNCHANGED <<platform, proc, status, procs, nProcs, starts,
                           nStarts, timers, fired, autoRestart>>
       ELSE /\ nStarts < MaxStarts
            /\ nStarts' = nStarts + 1
            /\ starts' = [starts EXCEPT ![nStarts + 1] = NewStart("cmd")]
            /\ lastOp' = Op("startAgent", "none", "suspended")
            /\ UNCHANGED <<platform, proc, status, procs, nProcs, timers,
                           fired, autoRestart>>
    /\ UNCHANGED <<runs, cfgVars, insVars>>

\* lines 283-285, readExposeConfigFile lines 90-103: the file read resolves;
\* an unreadable file raises a warning and counts as no file config.
\* composeFile comes from the file config or the settings.
StartReadCfg(s) ==
    /\ starts[s].pc = "readCfg"
    /\ \E readable \in BOOLEAN, m \in {"compose", "binary"} :
          /\ starts' = [starts EXCEPT ![s].pc = "getPassword",
                                      ![s].mode = m]
          /\ lastOp' = Op("readExposeConfigFile",
                          IF readable THEN "none" ELSE "warn", "resumed")
    /\ UNCHANGED <<platform, proc, status, procs, nProcs, nStarts, timers,
                   fired, autoRestart>>
    /\ UNCHANGED <<runs, cfgVars, insVars>>

\* lines 298/308 and 311-314: proc = spawn(...); wireProcess(proc); status.
\* spawn returns a handle also when the executable cannot be run: the
\* failure arrives later as the error event.
SpawnOk(s, alive) ==
    /\ nProcs' = nProcs + 1
    /\ procs' = [procs EXCEPT ![nProcs + 1] =
                    [state |-> IF alive THEN "running" ELSE "failed",
                     sigint |-> FALSE, killed |-> FALSE, stopReq |-> FALSE,
                     origin |-> starts[s].origin, mode |-> starts[s].mode]]
    /\ proc' = nProcs + 1
    /\ status' = "running"
    /\ starts' = [starts EXCEPT ![s] = DoneStart]
    /\ lastOp' = Op("startAgent", "none", "spawned")

\* lines 315-321: the catch block
StartCatch(s) ==
    /\ proc' = None
    /\ status' = "idle"
    /\ starts' = [starts EXCEPT ![s] = DoneStart]
    /\ lastOp' = Op("startAgent", "error", "failed")
    /\ UNCHANGED <<procs, nProcs>>

\* lines 287-298: resolveCwd and getPassword resolve; in compose mode the
\* spawn follows without another suspension
StartGetPassword(s) ==
    /\ starts[s].pc = "getPassword"
    /\ IF starts[s].mode = "compose"
       THEN \/ \E alive \in BOOLEAN : SpawnOk(s, alive)
            \/ StartCatch(s)
       ELSE /\ starts' = [starts EXCEPT ![s].pc = "resolveBinary"]
            /\ lastOp' = Op("getPassword", "none", "resumed")
            /\ UNCHANGED <<proc, status, procs, nProcs>>
    /\ UNCHANGED <<platform, nStarts, timers, fired, autoRestart>>
    /\ UNCHANGED <<runs, cfgVars, insVars>>

\* lines 300-309: resolveBinary resolves with a path, with undefined (no
\* path and auto-install off) or rejects (the install failed)
StartResolveBinary(s) ==
    /\ starts[s].pc = "resolveBinary"
    /\ \/ \E alive \in BOOLEAN : SpawnOk(s, alive)
       \/ StartCatch(s)
       \/ /\ starts' = [starts EXCEPT ![s] = DoneStart]
          /\ lastOp' = Op("startAgent", "warn", "nobinary")
          /\ UNCHANGED <<proc, status, procs, nProcs>>
    /\ UNCHANGED <<platform, nStarts, timers, fired, autoRestart>>
    /\ UNCHANGED <<runs, cfgVars, insVars>>

\* ------------------------------------------------------------------------
\* wireProcess (part_001 lines 377-400) and the child's own life
\* ------------------------------------------------------------------------
\* the child terminates: by itself, on the interrupt or on the forceful kill
ProcExit(p) ==
    /\ procs[p].state = "running"
    /\ procs' = [procs EXCEPT ![p] = Ended(procs[p], "exited")]
    /\ fired' = fired \ {p}
    /\ lastOp' = Op("exit", "none", "os")
    /\ UNCHANGED <<platform, proc, status, nProcs, starts, nStarts, timers,
                   autoRestart>>
    /\ UNCHANGED <<runs, cfgVars, insVars>>

\* a variant of the error handler without the test child === proc
ProcErrorAnyChild(p) ==
    /\ procs[p].state = "failed"
    /\ procs' = [procs EXCEPT ![p] = Ended(procs[p], "exited")]
    /\ proc' = None
    /\ status' = "idle"
    /\ lastOp' = Op("error", "none", "cleared")
    /\ UNCHANGED <<platform, nProcs, starts, nStarts, timers, fired,
                   autoRestart>>
    /\ UNCHANGED <<runs, cfgVars, insVars>>

\* child.on("error"), lines 378-386; the close event follows it
ProcError(p) ==
    /\ procs[p].state = "failed"
    /\ procs' = [procs EXCEPT ![p] = Ended(procs[p], "exited")]
    /\ proc' = IF p = proc THEN None ELSE proc
    /\ status' = IF p = proc THEN "idle" ELSE status
    /\ lastOp' = Op("error", "none", IF p = proc THEN "cleared" ELSE "kept")
    /\ UNCHANGED <<platform, nProcs, starts, nStarts, timers, fired,
                   autoRestart>>
    /\ UNCHANGED <<runs, cfgVars, insVars>>

\* a variant of the close handler without the test child === proc
ProcCloseAnyChild(p) ==
    /\ procs[p].state = "exited"
    /\ procs' = [procs EXCEPT ![p] = Ended(procs[p], "closed")]
    /\ proc' = None
    /\ status' = "idle"
    /\ lastOp' = Op("close", "none", "cleared")
    /\ UNCHANGED <<platform, nProcs, starts, nStarts, timers, fired,
                   autoRestart>>
    /\ UNCHANGED <<runs, cfgVars, insVars>>

\* child.on("close"), lines 391-399
ProcClose(p) ==
    /\ procs[p].state = "exited"
    /\ procs' = [procs EXCEPT ![p] = Ended(procs[p], "closed")]
    /\ proc' = IF p = proc THEN None ELSE proc
    /\ status' = IF p = proc THEN "idle" ELSE status
    /\ lastOp' = Op("close", "none", IF p = proc THEN "cleared" ELSE "kept")
    /\ UNCHANGED <<platform, nProcs, starts, nStarts, timers, fired,
                   autoRestart>>
    /\ UNCHANGED <<runs, cfgVars, insVars>>

\* ------------------------------------------------------------------------
\* the config watcher (part_001 lines 129-140) and restartAgent (324-327)
\* ------------------------------------------------------------------------
\* stopAgent() followed by startAgent() up to its first await: stopAgent
\* leaves proc undefined, so the guard of startAgent passes
restartAgent ==
    /\ nStarts < MaxStarts
    /\ procs' = StopSignal(procs, proc)
    /\ timers' = StopTimers(timers, proc)
    /\ proc' = None
    /\ status' = "idle"
    /\ nStarts' = nStarts + 1
    /\ starts' = [starts EXCEPT ![nStarts + 1] = NewStart("restart")]
    /\ lastOp' = Op("onChange", "none", "restart")

\* the watched file changes (change, create or delete) and onChange runs
onChange ==
    /\ IF autoRestart /\ proc # None
       THEN restartAgent
       ELSE /\ lastOp' = Op("onChange", "none", "ignored")
            /\ UNCHANGED <<proc, status, procs, starts, nStarts, timers>>
    /\ UNCHANGED <<platform, nProcs, fired, autoRestart>>
    /\ UNCHANGED <<runs, cfgVars, insVars>>

\* the user edits expose.autoRestartOnConfigChange
SetAutoRestart ==
    /\ autoRestart' = ~autoRestart
    /\ lastOp' = Op("settings", "none", "ok")
    /\ UNCHANGED <<platform, proc, status, procs, nProcs, starts, nStarts,
                   timers, fired>>
    /\ UNCHANGED <<runs, cfgVars, insVars>>

\* ------------------------------------------------------------------------
\* runOnce (part_001 lines 349-375)
\* ------------------------------------------------------------------------
\*   "none" | "resolve" (lines 350-354) | "input" (line 360) | "done"
NextRun == Cardinality({r \in Rids : runs[r] # "none"}) + 1

\* line 350: the command expose.runOnce up to its first await; there is no
\* guard
runOnce ==
    /\ NextRun \in Rids
    /\ runs' = [runs EXCEPT ![NextRun] = "resolve"]
    /\ lastOp' = Op("runOnce", "none", "suspended")
    /\ UNCHANGED <<platform, proc, status, procs, nProcs, starts, nStarts,
                   timers, fired, autoRestart>>
    /\ UNCHANGED <<cfgVars, insVars>>

\* lines 350-358: the config read, resolveCwd, getPassword and
\* resolveBinary resolve; resolveBinary gives a path, or undefined, or
\* rejects, and nothing in runOnce catches the rejection
RunResolveBinary(r) ==
    /\ runs[r] = "resolve"
    /\ \/ /\ runs' = [runs EXCEPT ![r] = "input"]
          /\ lastOp' = Op("runOnce", "none", "resumed")
       \/ /\ runs' = [runs EXCEPT ![r] = "done"]
          /\ lastOp' = Op("runOnce", "warn", "nobinary")
       \/ /\ runs' = [runs EXCEPT ![r] = "done"]
          /\ lastOp' = Op("runOnce", "none", "failed")
    /\ UNCHANGED <<platform, proc, status, procs, nProcs, starts, nStarts,
                   timers, fired, autoRestart>>
    /\ UNCHANGED <<cfgVars, insVars>>

\* lines 360-374: the input box resolves; undefined ends the run, anything
\* else spawns a child that is wired but not assigned to proc
RunSpawn(r) ==
    /\ runs[r] = "input"
    /\ runs' = [runs EXCEPT ![r] = "done"]
    /\ \/ /\ lastOp' = Op("runOnce", "none", "cancelled")
          /\ UNCHANGED <<procs, nProcs>>
       \/ \E alive \in BOOLEAN :
             /\ nProcs' = nProcs + 1
             /\ procs' = [procs EXCEPT ![nProcs + 1] =
                             [NoProc EXCEPT
                                 !.state = IF alive THEN "running"
                                           ELSE "failed",
                                 !.origin = "once"]]
             /\ lastOp' = Op("runOnce", "none", "spawned")
    /\ UNCHANGED <<platform, proc, status, starts, nStarts, timers, fired,
                   autoRestart>>
    /\ UNCHANGED <<cfgVars, insVars>>

Next ==
    \/ startAgent
    \/ stopAgent
    \/ onChange
    \/ SetAutoRestart
    \/ \E s \in Sids : StartReadCfg(s)
    \/ \E s \in Sids : StartGetPassword(s)
    \/ \E s \in Sids : StartResolveBinary(s)
    \/ \E t \in Pids : TimerFire(t)
    \/ \E p \in Pids : ProcExit(p)
    \/ \E p \in Pids : ProcError(p)
    \/ \E p \in Pids : ProcClose(p)

\* the supervisor with the command expose.runOnce
NextOnce ==
    \/ Next
    \/ runOnce
    \/ \E r \in Rids : RunResolveBinary(r)
    \/ \E r \in Rids : RunSpawn(r)

Spec == Init /\ [][Next]_vars

SpecCfg == InitCfg /\ [][NextCfg]_vars

SpecOnce == InitOnce /\ [][NextOnce]_vars

SpecPick == InitPick /\ [][NextPick]_vars

SpecInstall == InitInstall /\ [][NextInstall]_vars

\* ========================================================================
\* Properties
\* ========================================================================
\* the children that are alive and that no stop has been requested for
LiveManaged ==
    {p \in Pids : /\ procs[p].state = "running"
                  /\ procs[p].origin # "once"
                  /\ ~procs[p].stopReq}

\* C1: at most one managed agent process is alive and not being stopped at
\* any time, whatever the interleaving of start requests: a spawn never
\* leaves an earlier live child behind.
AtMostOneManaged == Cardinality(LiveManaged) <= 1

\* C2: on a signal-capable platform a stopped child that has not exited when
\* the 1500ms timer of its stop runs has received the forceful kill.
EscalationKillsStopped == \A p \in fired : procs[p].killed

\* C3: the child spawned by a config-change restart stays the managed
\* running process until it exits or a stop is requested for it: it takes a
\* forceful kill only after a stop request of its own.
RestartedStaysManaged ==
    \A p \in Pids :
        (procs[p].origin = "restart" /\ procs[p].state = "running"
            /\ procs[p].killed) => procs[p].stopReq

\* C4: a start request while a process is tracked raises the informational
\* notice and changes nothing: no start is suspended in the config read, no
\* child is spawned or signalled, proc and the status stay as they are.
StartWhileTrackedChangesNothing ==
    [][(startAgent /\ proc # None) =>
          /\ lastOp' = Op("startAgent", "info", "rejected")
          /\ UNCHANGED <<platform, proc, status, procs, nProcs, starts,
                         nStarts, timers, fired, autoRestart, cfgVars>>]_vars

\* C4 witness: the request was rejected while the tracked child is alive
StartRejectedWhileRunning ==
    /\ lastOp = Op("startAgent", "info", "rejected")
    /\ proc # None
    /\ procs[proc].state = "running"
    /\ status = "running"

\* C5: a stop request while no process is tracked sends no signal, arms no
\* timer, raises no notification and leaves proc and the status unchanged.
StopWhileIdleChangesNothing ==
    [][(stopAgent /\ proc = None) =>
          /\ lastOp'.notice = "none"
          /\ UNCHANGED <<platform, proc, status, procs, nProcs, starts,
                         nStarts, timers, fired, autoRestart, cfgVars>>]_vars

\* C5 witness: a stop that found nothing to stop, right after a stop whose
\* child is still alive and whose timer is still pending
SecondStopWasNoop ==
    /\ lastOp = Op("stopAgent", "none", "noop")
    /\ proc = None
    /\ \E p \in timers : p # None /\ procs[p].state = "running"
                         /\ procs[p].sigint

\* ------------------------------------------------------------------------
\* the argument vector, read as the agent's flag parser reads it
GeneratedFlags ==
    <<FlagS, FlagP, FlagLs, FlagLp, FlagBp, FlagId, FlagPw, FlagA, FlagR>>
FlagSet == {GeneratedFlags[i] : i \in 1..Len(GeneratedFlags)}
ValuedFlags == FlagSet \ {FlagA, FlagR}

Count(a, fl) == Cardinality({i \in 1..Len(a) : a[i] = fl})
HasFlag(a, fl) == \E i \in 1..Len(a) : a[i] = fl
Pos(a, fl) == CHOOSE i \in 1..Len(a) : a[i] = fl
\* the flag occurs once and this value follows it
FlagIs(a, fl, v) ==
    /\ Count(a, fl) = 1
    /\ Pos(a, fl) < Len(a)
    /\ a[Pos(a, fl) + 1] = v

NonBlank(o) == o # Undef /\ Trim(Val(o)) # <<>>
Blank(o) == o # Undef /\ Trim(Val(o)) = <<>>

\* C6: a secret-store password that is non-empty after trimming is, trimmed,
\* the value passed after -pw, whatever the file config and the settings
\* (the legacy password setting included) hold.
SecretPasswordWins ==
    (cfgPc = "built" /\ NonBlank(secret)) =>
        FlagIs(args, FlagPw, Trim(Val(secret)))

\* C6 witness: a padded secret against a file password and a legacy password
SecretAgainstBothOthers ==
    /\ cfgPc = "built"
    /\ NonBlank(secret) /\ Val(secret) # Trim(Val(secret))
    /\ NonBlank(fileCfg.password)
    /\ NonBlank(settings.legacyPassword)

\* C7: with no or a blank secret, a non-blank inline password of the file
\* config is, trimmed, the value passed after -pw, whatever the settings
\* store holds.
FilePasswordBeatsSettings ==
    (cfgPc = "built" /\ ~NonBlank(secret) /\ NonBlank(fileCfg.password)) =>
        FlagIs(args, FlagPw, Trim(Val(fileCfg.password)))

\* the value a field has by precedence of presence: the file's when the
\* file has the field, else the settings' when set, else the default
ByPresence(f, dflt) ==
    IF fileCfg[f] # Undef THEN Val(fileCfg[f])
    ELSE IF settings[f] # Undef THEN Val(settings[f]) ELSE dflt

\* a string flag carries the trimmed value, and is left out when it is empty
StrFlagShows(fl, v) ==
    IF Trim(v) # <<>> THEN FlagIs(args, fl, Trim(v)) ELSE ~HasFlag(args, fl)
\* a port flag carries the number in decimal, and is left out when it is 0
NumFlagShows(fl, n) ==
    IF n # 0 THEN FlagIs(args, fl, String(n)) ELSE ~HasFlag(args, fl)

\* C8 as stated: a blank string in the file config counts as absent, so the
\* non-blank settings value of the field is the one in effect.
BlankFileValueFallsThrough ==
    cfgPc = "built" =>
        /\ (Blank(fileCfg.sshHost) /\ NonBlank(settings.sshHost)) =>
              FlagIs(args, FlagS, Trim(Val(settings.sshHost)))
        /\ (Blank(fileCfg.localHost) /\ NonBlank(settings.localHost)) =>
              FlagIs(args, FlagLs, Trim(Val(settings.localHost)))
        /\ (Blank(fileCfg.id) /\ NonBlank(settings.id)) =>
              FlagIs(args, FlagId, Trim(Val(settings.id)))
        /\ (Blank(fileCfg.composeFile) /\ NonBlank(settings.composeFile)) =>
              eff.composeFile = Trim(Val(settings.composeFile))

\* C8 amended: every non-secret field takes the file's value when the file
\* has the field at all (a blank string, 0 and false included), else the
\* settings value when set, else the default written in the code; strings
\* are trimmed and an empty result leaves the flag out.
FileValueWinsWhenPresent ==
    /\ cfgPc = "built" =>
        /\ StrFlagShows(FlagS, ByPresence("sshHost", DefaultSshHost))
        /\ NumFlagShows(FlagP, ByPresence("sshPort", DefaultSshPort))
        /\ StrFlagShows(FlagLs, ByPresence("localHost", DefaultLocalHost))
        /\ NumFlagShows(FlagLp, ByPresence("localPort", DefaultLocalPort))
        /\ FlagIs(args, FlagBp,
                  String(ByPresence("bindPort", DefaultBindPort)))
        /\ StrFlagShows(FlagId, ByPresence("id", <<>>))
        /\ HasFlag(args, FlagA) <=> ByPresence("keepAlive", FALSE)
        /\ HasFlag(args, FlagR) <=> ByPresence("autoReconnect", FALSE)
        /\ eff.cwd = Trim(ByPresence("cwd", <<>>))
        /\ eff.autoInstall = ByPresence("autoInstall", FALSE)
    /\ cfgPc \in {"built", "spawned"} =>
        /\ eff.composeFile = Trim(ByPresence("composeFile", <<>>))
        /\ eff.composeService =
              Trim(ByPresence("composeService", DefaultComposeService))

\* C8 witness: the file has a blank host and a zero port, the settings have
\* real ones
BlankFileValueOverSetting ==
    /\ cfgPc = "built"
    /\ Blank(fileCfg.sshHost) /\ NonBlank(settings.sshHost)
    /\ ~HasFlag(args, FlagS)

\* the scenario of the specification: the default settings with keepAlive
\* on, no file config, no password
ScenarioInput ==
    /\ fileCfg = NoFile
    /\ secret = Undef
    /\ settings = [DefaultSettings EXCEPT !.keepAlive = Some(TRUE)]
ScenarioArgs ==
    <<FlagS, DefaultSshHost, FlagP, <<"2","2","0","0">>, FlagLs,
      DefaultLocalHost, FlagLp, <<"7","5","0","0">>, FlagBp, <<"0">>, FlagA>>

\* C9: the generated flags come in the fixed order -s -p -ls -lp -bp -id -pw
\* -a -r, each at most once, each valued flag directly followed by its
\* value, and the extra tokens after all of them; the scenario yields
\* exactly its vector.
ArgsFollowFixedOrder ==
    cfgPc = "built" =>
        /\ \A i \in 1..Len(GeneratedFlags) :
              Count(args, GeneratedFlags[i]) <= 1
        /\ \A i, j \in 1..Len(GeneratedFlags) :
              (i < j /\ HasFlag(args, GeneratedFlags[i])
                     /\ HasFlag(args, GeneratedFlags[j]))
              => Pos(args, GeneratedFlags[i]) < Pos(args, GeneratedFlags[j])
        /\ \A k \in 1..Len(args) :
              \/ args[k] \in FlagSet /\ (args[k] \in ValuedFlags =>
                    k < Len(args) /\ args[k + 1] \notin FlagSet)
              \/ k > 1 /\ args[k - 1] \in ValuedFlags
              \/ \A m \in k..Len(args) : args[m] \notin FlagSet
        /\ ScenarioInput => args = ScenarioArgs

\* C9 witness: all nine flags and an extra token in one vector
AllFlagsPresent ==
    /\ cfgPc = "built"
    /\ \A i \in 1..Len(GeneratedFlags) : HasFlag(args, GeneratedFlags[i])
    /\ args[Len(args)] \notin FlagSet
    /\ Len(args) = 17

DigitSet == {Digits[i] : i \in 1..Len(Digits)}

\* C10: every vector has -bp followed by a port number, and the pair is
\* -bp 0 when neither source sets bindPort or the bind port in effect is 0.
BindPortAlwaysEmitted ==
    cfgPc = "built" =>
        /\ Count(args, FlagBp) = 1
        /\ Pos(args, FlagBp) < Len(args)
        /\ LET v == args[Pos(args, FlagBp) + 1]
           IN  /\ v # <<>>
               /\ \A i \in 1..Len(v) : v[i] \in DigitSet
               /\ (\/ fileCfg.bindPort = Undef /\ settings.bindPort = Undef
                   \/ Configured(fileCfg, "bindPort") = Some(0))
                  => v = <<"0">>

\* C10 witness: no source sets the bind port, and the vector has -bp 0
BindPortUnsetEverywhere ==
    /\ cfgPc = "built"
    /\ fileCfg.bindPort = Undef /\ settings.bindPort = Undef
    /\ FlagIs(args, FlagBp, <<"0">>)

\* ------------------------------------------------------------------------
\* C11: extra arguments
\* ------------------------------------------------------------------------
\* the arguments after the last generated flag and its value
ExtraTail ==
    LET flagged == {i \in 1..Len(args) : args[i] \in FlagSet}
        last == CHOOSE i \in flagged : \A j \in flagged : j <= i
        genLen == IF args[last] \in ValuedFlags THEN last + 1 ELSE last
    IN  SubSeq(args, genLen + 1, Len(args))

\* the tokens of a configured list that are not blank, each trimmed, in the
\* order of the list
KeptTokens(o) ==
    LET list == IF o = Undef THEN <<>> ELSE Val(o)
        kept == SelectSeq(list, LAMBDA t : \E i \in 1..Len(t) : t[i] # " ")
    IN  [i \in 1..Len(kept) |-> Trim(kept[i])]

\* C11: the arguments after the generated flags are the file's extra
\* arguments in file order followed by the settings' extra arguments in
\* settings order, each trimmed and the blank ones dropped; the file's list
\* never hides the settings' list.
ExtraArgsFileThenSettings ==
    cfgPc = "built" =>
        ExtraTail = KeptTokens(fileCfg.args) \o KeptTokens(settings.args)

\* both lists hold blank and padded tokens and both show up in the tail
BothExtraListsAppended ==
    /\ cfgPc = "built"
    /\ fileCfg.args # Undef /\ Len(Val(fileCfg.args)) = 4
    /\ settings.args # Undef /\ Len(Val(settings.args)) = 4
    /\ ExtraTail = << <<"f", "2">>, <<"f", "3">>, <<"s", "2">>, <<"s", "3">> >>

\* ------------------------------------------------------------------------
\* C14: a config file that cannot be read
\* ------------------------------------------------------------------------
\* expose.configFile names a file, and reading or parsing it fails
Unreadable == NonBlank(disk.path) /\ disk.state # "ok"

\* C14: when a config file path is configured and the file is missing or is
\* not valid JSON, the resolution raises exactly one warning, carries on
\* with no file config at all, and builds from the settings and defaults
\* what it would build with no file configured; a readable or unconfigured
\* file raises no warning.
UnreadableConfigWarnsOnce ==
    /\ (cfgPc # "read" /\ Unreadable) =>
          /\ notices = <<"warning">>
          /\ fileCfg = NoFile
    /\ (cfgPc = "built" /\ Unreadable) =>
          args = buildArgsFromConfig(NoFile, getPassword)
    /\ ~Unreadable => notices = <<>>

\* a malformed file that would have set every flag, read past and built
MalformedFileReadPast ==
    /\ cfgPc = "built"
    /\ disk.state = "malformed" /\ disk.content = FullFile
    /\ NonBlank(disk.path)
    /\ settings = FullSettings
    /\ notices = <<"warning">>
    /\ ~HasFlag(args, <<"f", "1">>)

\* ------------------------------------------------------------------------
\* C12: compose mode and binary mode
\* ------------------------------------------------------------------------
\* the compose file in effect
EffectiveComposeFile == Trim(ByPresence("composeFile", <<>>))

\* C12: a start with a non-empty effective compose file spawns docker with
\* exactly compose -f <file> up <service> and neither resolves a binary nor
\* builds an argument vector; a start with an empty or blank one never
\* spawns docker.
ComposeExcludesBinary ==
    /\ (cfgPc \in {"built", "spawned"} /\ EffectiveComposeFile # <<>>) =>
          /\ cmd = "docker"
          /\ args = <<Compose, DashF, resolveVars(EffectiveComposeFile), Up,
                      Trim(ByPresence("composeService",
                                      DefaultComposeService))>>
          /\ did = {}
    /\ (cfgPc \in {"built", "spawned"} /\ EffectiveComposeFile = <<>>) =>
          /\ cmd = "expose"
          /\ did = {"resolveBinary", "buildArgsFromConfig"}
    /\ cmd = "docker" => cfgPc = "spawned"

\* a compose start whose file names the workspace folder
ComposeSpawnedInWorkspace ==
    /\ cfgPc = "spawned"
    /\ cmd = "docker"
    /\ args[3] = Folder \o <<"/", "f">>
    /\ settings.composeFile # Undef

\* ------------------------------------------------------------------------
\* C13: one-off runs
\* ------------------------------------------------------------------------
OneOff(p) == procs[p].origin = "once"
\* the one-off runs and their children
OneOffPart == <<runs, [p \in Pids |-> IF OneOff(p) THEN procs[p] ELSE NoProc]>>
\* the managed slot, the starts, the stop timers and the managed children
ManagedPart ==
    <<proc, status, starts, nStarts, timers, fired,
      [p \in Pids |-> IF OneOff(p) THEN NoProc ELSE procs[p]]>>

\* C13: a one-off run is independent of the managed slot.  A one-off child
\* is never the tracked process, never the target of a stop timer and never
\* receives a signal of stopAgent or of the kill escalation; and no step
\* changes both sides: what a one-off run or its child does (launch, exit,
\* error, close) leaves the tracked reference, the status, the starts, the
\* timers and the managed children as they are, and what happens to the
\* managed slot leaves the one-off runs and their children as they are.
OneOffIndependentOfManaged ==
    /\ [](\A p \in Pids :
            OneOff(p) => /\ p # proc
                         /\ p \notin timers
                         /\ ~procs[p].sigint
                         /\ ~procs[p].killed
                         /\ ~procs[p].stopReq)
    /\ [][OneOffPart' # OneOffPart => ManagedPart' = ManagedPart]_vars

\* a one-off child, spawned before the managed one, is still running after
\* the managed one was started beside it and then stopped
OneOffOutlivesManagedStop ==
    \E o \in Pids, m \in Pids :
        /\ o < m
        /\ OneOff(o) /\ procs[o].state = "running"
        /\ ~OneOff(m) /\ procs[m].stopReq
        /\ proc = None

\* ------------------------------------------------------------------------
\* C19: failed starts
\* ------------------------------------------------------------------------
\* the handler that ran last is a start that failed: no binary, or the
\* catch block (provisioning or spawn threw)
StartJustFailed ==
    lastOp.op = "startAgent" /\ lastOp.result \in {"nobinary", "failed"}

\* a set tracked reference is a spawned child none of whose events has been
\* handled yet
TrackedIsLive ==
    proc # None => procs[proc].state \in {"running", "failed", "exited"}

\* C19: every start that fails ends with the supervisor Idle, the tracked
\* reference cleared and the status not running, and a set tracked
\* reference always refers to a spawned process whose exit or error event
\* has not been handled yet.
FailedStartEndsIdle ==
    /\ StartJustFailed => (proc = None /\ status = "idle")
    /\ TrackedIsLive

\* ------------------------------------------------------------------------
\* C20: failures and notifications
\* ------------------------------------------------------------------------
\* the handler that ran last dealt with a failure: a start or one-off run
\* without a binary, a start or run that threw, or a child that could not
\* be spawned (its error event)
FailureJustHandled ==
    \/ lastOp.result \in {"nobinary", "failed"}
    \/ lastOp.op = "error"

\* C20: every failure of a start, a one-off run or an install that the user
\* can see results in a notification; none goes to the output channel only
\* or unreported.
EveryFailureNotified ==
    FailureJustHandled => lastOp.notice \in {"warn", "error"}

\* ------------------------------------------------------------------------
\* C18: pickAsset on a release with one asset for the host
\* ------------------------------------------------------------------------
\* C18: for every supported host and every list with exactly one asset
\* named for it, in any of the three forms, and any assets named for other
\* hosts, in any order, pickAsset returns the host's asset and never one of
\* the others.
PickReturnsHostAsset ==
    pickPc = "done" =>
        /\ hit # Undef
        /\ Val(hit) \in NamesFor(host)

NotInstalledWithoutDownload ==
    \A c \in Cids :
        /\ ~calls[c].install => (~calls[c].net /\ calls[c].wrote = {})
        /\ (/\ calls[c].kind = "resolveBinary"
            /\ ~calls[c].autoInstall
            /\ calls[c].pc = "done"
            /\ calls[c].pre = "absent") =>
              /\ calls[c].threw = "NotInstalled"
              /\ calls[c].result = "undefined"
              /\ ~calls[c].net
              /\ calls[c].wrote = {}

\* a resolveBinary with auto-install off has failed and the managed path
\* is still empty
NotInstalledLeftEmpty ==
    \E c \in Cids :
        /\ calls[c].kind = "resolveBinary" /\ ~calls[c].autoInstall
        /\ calls[c].pc = "done" /\ calls[c].pre = "absent"
        /\ calls[c].result = "undefined"
        /\ files[BinName] = "absent"

\* ------------------------------------------------------------------------
\* C17: the temp file and the managed path
\* ------------------------------------------------------------------------
\* C17: a call writes the managed path only after its download to the temp
\* file has completed; the temp file never is the managed path; and a call
\* that fails because the release request fails, no asset matches or the
\* download fails or stops part way has not written the managed path.
FinalWrittenAfterDownload ==
    \A c \in Cids :
        /\ BinName \in calls[c].wrote => calls[c].dl
        /\ calls[c].asset # <<>> => calls[c].asset # BinName
        /\ calls[c].threw \in {"NetworkError", "NoMatchingAsset",
                               "WriteError"} =>
              /\ calls[c].pc = "done"
              /\ BinName \notin calls[c].wrote

\* a download that stopped part way: the temp file is partial, the call has
\* failed and nothing is at the managed path
PartialDownloadLeftFinalAlone ==
    \E c \in Cids :
        /\ calls[c].threw = "WriteError"
        /\ files[calls[c].asset] = "partial"
        /\ files[BinName] = "absent"

\* ------------------------------------------------------------------------
\* C21: the working directory of the spawn
\* ------------------------------------------------------------------------
\* p with every ${workspaceFolder} replaced by the workspace root when there
\* is one, and p as it is when there is none
Substituted(p) ==
    IF workspace = Undef THEN p
    ELSE [i \in 1..Len(p) |->
             IF p[i] = WorkspaceFolderVar[1] THEN Val(workspace)
             ELSE <<p[i]>>]

RECURSIVE Flat(_)
Flat(parts) == IF parts = <<>> THEN <<>> ELSE Head(parts) \o Flat(Tail(parts))

\* the directory a configured value v stands for, and the one taken when
\* nothing is configured
DirOf(v) ==
    IF Trim(v) # <<>>
    THEN (IF workspace = Undef THEN Trim(v) ELSE Flat(Substituted(Trim(v))))
    ELSE IF workspace # Undef THEN Val(workspace) ELSE HomeDir

Spawned == cfgPc \in {"built", "spawned"}

\* C21 as stated: the working directory is the file's cwd when that is
\* non-blank, else the settings' cwd when that is non-blank, else the
\* workspace root, else the home directory, with ${workspaceFolder}
\* replaced when there is a workspace root.
CwdBlankFallsThrough ==
    Spawned =>
        eff.dir = DirOf(IF NonBlank(fileCfg.cwd) THEN Val(fileCfg.cwd)
                        ELSE IF NonBlank(settings.cwd) THEN Val(settings.cwd)
                        ELSE <<>>)

\* C21 amended: the working directory is the file's cwd when the file has
\* the field at all, else the settings' cwd when set; that value is trimmed,
\* and when it is empty the directory is the workspace root, else the home
\* directory; every ${workspaceFolder} in it is replaced by the workspace
\* root when there is one and left as it is when there is none.
CwdByPresence == Spawned => eff.dir = DirOf(ByPresence("cwd", <<>>))

\* C21 witness: a spawn whose file cwd is blank beside a non-blank settings
\* cwd, in the workspace root
BlankFileCwdInWorkspaceRoot ==
    /\ Spawned
    /\ Blank(fileCfg.cwd) /\ NonBlank(settings.cwd)
    /\ workspace # Undef
    /\ eff.dir = Val(workspace)

\* ------------------------------------------------------------------------
\* C22: a stop request while a start is suspended
\* ------------------------------------------------------------------------
\* the start s is between its entry and its spawn: in the config read, in
\* getPassword or in resolveBinary
Suspended(s) == starts[s].pc \in {"readCfg", "getPassword", "resolveBinary"}

\* C22: a stop request issued while a start is suspended before its spawn
\* is a no-op: it signals no process, arms no timer, leaves proc and the
\* status as they are, and leaves the pending start where it is.
StopDuringStartIsNoop ==
    [][(stopAgent /\ \E s \in Sids : Suspended(s)) =>
          UNCHANGED <<proc, status, procs, timers, starts, nStarts>>]_vars

\* what holds of C22: a stop request never touches a pending start, and it
\* changes nothing at all when no process is tracked
StopLeavesStartsAlone ==
    [][stopAgent =>
          /\ UNCHANGED <<starts, nStarts>>
          /\ proc = None => UNCHANGED <<proc, status, procs, timers>>]_vars

\* a start is suspended while another start's child is tracked and alive
StartSuspendedBesideTracked ==
    /\ \E s \in Sids : Suspended(s)
    /\ proc # None
    /\ procs[proc].state = "running"

\* ------------------------------------------------------------------------
\* C23: the target of the escalation timer
\* ------------------------------------------------------------------------
\* C23: the forceful kill of a stop request's 1500ms timer is delivered to
\* the process that stop request was stopping and to no other: when the
\* timer of the stop of t runs, no process but t is signalled.
TimerKillsOnlyItsOwn ==
    [][\A t \in Pids :
          TimerFire(t) =>
              \A p \in Pids \ {t} : procs'[p].killed = procs[p].killed]_vars

\* ------------------------------------------------------------------------
\* C24: events of children that are not the tracked one
\* ------------------------------------------------------------------------
\* the error handler or the close handler of child p runs in this step
HandlerRuns(p) ==
    \/ procs[p].state = "failed" /\ procs'[p].state = "exited"
    \/ procs[p].state = "exited" /\ procs'[p].state = "closed"

\* C24: the error or close event of a child that is not the tracked one
\* leaves proc and the status as they are; the event of the tracked child
\* clears proc and resets the status.
StaleEventsLeaveTracked ==
    [][\A p \in Pids :
          HandlerRuns(p) =>
              IF p = proc THEN proc' = None /\ status' = "idle"
              ELSE UNCHANGED <<proc, status>>]_vars

\* C24 witness: the close event of a replaced child has been handled while
\* the child of the newer start is tracked, alive and shown as running
StaleCloseKeptTracked ==
    /\ lastOp = Op("close", "none", "kept")
    /\ proc # None
    /\ procs[proc].state = "running"
    /\ status = "running"
    /\ \E p \in Pids \ {proc} : procs[p].state = "closed"

\* ------------------------------------------------------------------------
\* C25: the managed path under concurrent calls
\* ------------------------------------------------------------------------
\* the states of a file that can be run: all written and, on platforms
\* other than win32, marked executable
Complete ==
    IF host.platform = "win32" THEN {"old", "full"} ELSE {"old", "exec"}

\* the call c hands the managed path to its caller in this step
ReturnsBinPath(c) ==
    /\ calls[c].pc # "done"
    /\ calls'[c].pc = "done"
    /\ calls'[c].result = "binPath"

\* C25: whatever the interleaving of the calls, a call returns the managed
\* path only when the file there is complete: no copy to it is in progress
\* and, on platforms other than win32, it has been marked executable.
ReturnedBinaryIsComplete ==
    [][\A c \in Cids :
          ReturnsBinPath(c) => files'[BinName] \in Complete]_vars

\* ------------------------------------------------------------------------
\* C26: the status bar and the tracked reference
\* ------------------------------------------------------------------------
\* C26: whenever a handler has returned to the event loop, the status bar
\* shows running (with the stop command) exactly when proc is set; so every
\* step that sets or clears proc has updated the status within itself.
StatusShowsTracked == (status = "running") <=> (proc # None)

\* C26 witness: the error event of the tracked child has cleared proc and
\* put the status back, while a start is still on its way to its spawn
ErrorEventResetStatus ==
    /\ lastOp = Op("error", "none", "cleared")
    /\ proc = None
    /\ status = "idle"
    /\ \E s \in Sids : Suspended(s)

====
